---- MODULE Spec2Model ----
(***************************************************************************)
(* Model of pkg/providers/v1/zones.go: the zoneCache that maps             *)
(* availability-zone names to zoneDetails, filled lazily from              *)
(* ec2.DescribeAvailabilityZones under a sync.Mutex.                       *)
(*                                                                         *)
(* Each goroutine calling getZoneDetailsByNames is a caller with a program *)
(* counter:                                                                *)
(*   idle     not inside getZoneDetailsByNames                             *)
(*   lock     blocked in z.mutex.Lock()                        (line 47)   *)
(*   check    holds the mutex, at shouldPopulateCache          (line 50)   *)
(*   describe inside populate, DescribeAvailabilityZones is in flight (93) *)
(*   write    inside populate, in the loop over zones      (lines 103-110) *)
(*   read     building requestedZoneDetails                (lines 58-65)   *)
(*   ret      return values set (lines 44, 54, 67), about to return        *)
(***************************************************************************)
EXTENDS Integers, Sequences, FiniteSets, TLC

\* ---------------------------------------------------------------- bounds
NumCallers == 2      \* goroutines calling getZoneDetailsByNames
MaxNames   == 2      \* longest zoneNames argument
MaxZones   == 2      \* longest DescribeAvailabilityZones answer
MaxCalls   == 2      \* DescribeAvailabilityZones calls per behaviour

Callers == 1 .. NumCallers

\* zone names a caller may ask for
RequestNames == {"A", "C"}

\* *string values of ec2.AvailabilityZone fields: <<>> is the nil pointer,
\* <<s>> points to s
NilPtr == << >>

\* ec2.AvailabilityZone records the directory may list: zone A under two
\* descriptions (one with nil id and type), zone C under one
AvailabilityZones ==
    { [ZoneName |-> <<"A">>, ZoneId |-> <<"use1-az1">>,
       ZoneType |-> <<"availability-zone">>],
      [ZoneName |-> <<"A">>, ZoneId |-> NilPtr, ZoneType |-> NilPtr],
      [ZoneName |-> <<"C">>, ZoneId |-> <<"use1-az3">>,
       ZoneType |-> <<"local-zone">>] }

RECURSIVE SeqsUpTo(_, _)
SeqsUpTo(S, n) ==
    IF n = 0 THEN {<< >>}
    ELSE LET shorter == SeqsUpTo(S, n - 1)
         IN  shorter \cup {Append(s, x) : s \in {t \in shorter : Len(t) = n - 1}, x \in S}

\* the zoneNames arguments and the DescribeAvailabilityZones answers
ZoneNameArgs == SeqsUpTo(RequestNames, MaxNames)
Listings     == SeqsUpTo(AvailabilityZones, MaxZones)

\* ------------------------------------------------------------ helpers
\* aws.StringValue: the pointed-to string, "" for a nil pointer
StringValue(p) == IF p = NilPtr THEN "" ELSE p[1]

\* an empty map[string]zoneDetails
EmptyMap == [n \in {} |-> n]

\* variant in which every entry ends up holding the value stored last
MapSetAliased(m, k, v) == [n \in DOMAIN m \cup {k} |-> v]

\* variant that stores only under a key the map does not hold yet
MapSetIfAbsent(m, k, v) ==
    [n \in DOMAIN m \cup {k} |-> IF n \in DOMAIN m THEN m[n] ELSE v]

\* m[k] = v on a Go map
MapSet(m, k, v) ==
    [n \in DOMAIN m \cup {k} |-> IF n = k THEN v ELSE m[n]]

\* variant with the id and the type in each other's field
zoneDetailsSwapped(zone) ==
    LET name == StringValue(zone.ZoneName)
    IN  [name |-> name,
         id |-> StringValue(zone.ZoneType),
         zoneType |-> StringValue(zone.ZoneId)]

\* the zoneDetails literal of lines 105-109
zoneDetails(zone) ==
    LET name == StringValue(zone.ZoneName)
    IN  [name |-> name,
         id |-> StringValue(zone.ZoneId),
         zoneType |-> StringValue(zone.ZoneType)]

\* the value a finished call hands back: (map, error); a nil map is isNil
RetOk(m)  == [details |-> m, isNil |-> FALSE, err |-> FALSE]
RetErr    == [details |-> EmptyMap, isNil |-> TRUE, err |-> TRUE]
NoRet     == [details |-> EmptyMap, isNil |-> TRUE, err |-> FALSE]

VARIABLES
    zoneNameToDetails,  \* z.zoneNameToDetails
    mutex,              \* z.mutex: 0 when unlocked, else the holder
    pc,                 \* per caller: position in getZoneDetailsByNames
    zoneNames,          \* per caller: the argument
    zones,              \* per caller: the listing populate received
    idx,                \* per caller: records of zones already written
    ret,                \* per caller: the returned (map, error)
    calls,              \* per caller: DescribeAvailabilityZones calls of this call
    pre,                \* per caller: z.zoneNameToDetails when the mutex was taken
    describeCalls,      \* DescribeAvailabilityZones calls issued so far
    stable,             \* z.zoneNameToDetails at the last populate boundary
    populateErr         \* per caller: the err of line 52 is non-nil

vars == <<zoneNameToDetails, mutex, pc, zoneNames, zones, idx, ret, calls,
          pre, describeCalls, stable, populateErr>>

\* ------------------------------------------------------------ functions
\* shouldPopulateCache (lines 71-86)
RECURSIVE AnyMissing(_, _)
AnyMissing(m, names) ==
    IF names = << >> THEN FALSE
    ELSE IF Head(names) \notin DOMAIN m THEN TRUE
    ELSE AnyMissing(m, Tail(names))

\* variants of shouldPopulateCache with one test got wrong
shouldPopulateCacheInvertedEmpty(m, names) ==
    IF Cardinality(DOMAIN m) = 0 THEN FALSE
    ELSE AnyMissing(m, names)

shouldPopulateCacheAlways(m, names) == TRUE

shouldPopulateCacheOnlyEmpty(m, names) == Cardinality(DOMAIN m) = 0

\* variant whose loop looks at the first name only
shouldPopulateCacheFirstName(m, names) ==
    IF Cardinality(DOMAIN m) = 0 THEN TRUE
    ELSE Head(names) \notin DOMAIN m

shouldPopulateCache(m, names) ==
    IF Cardinality(DOMAIN m) = 0 THEN TRUE
    ELSE AnyMissing(m, names)

\* the loop of lines 58-65 over zoneNames, starting from an empty map
RECURSIVE BuildRequested(_, _, _)
BuildRequested(m, names, acc) ==
    IF names = << >> THEN acc
    ELSE LET zone == Head(names)
         IN  IF zone \in DOMAIN m
             THEN BuildRequested(m, Tail(names), MapSet(acc, zone, m[zone]))
             ELSE BuildRequested(m, Tail(names), acc)

\* variant that stops after the first name
requestedZoneDetailsFirstOnly(m, names) ==
    BuildRequested(m, <<Head(names)>>, EmptyMap)

requestedZoneDetails(m, names) == BuildRequested(m, names, EmptyMap)

\* variant without the fast path of line 43
IsEmptyInputNever(names) == FALSE

\* the loop of lines 103-110 as a whole: the map after every record of the
\* listing has been stored, in order
RECURSIVE populateLoop(_, _)
populateLoop(m, listing) ==
    IF listing = << >> THEN m
    ELSE LET zone == Head(listing)
         IN  populateLoop(MapSet(m, StringValue(zone.ZoneName), zoneDetails(zone)),
                          Tail(listing))

\* line 43
IsEmptyInput(names) == Len(names) = 0

\* variant in which Lock does not wait
CanLockAlways(c) == TRUE

\* sync.Mutex: Lock returns only when the mutex is unlocked
CanLock(c) == mutex = 0

\* ------------------------------------------------------------ Init
Init ==
    /\ zoneNameToDetails = EmptyMap
    /\ mutex = 0
    /\ pc = [c \in Callers |-> "idle"]
    /\ zoneNames = [c \in Callers |-> << >>]
    /\ zones = [c \in Callers |-> << >>]
    /\ idx = [c \in Callers |-> 0]
    /\ ret = [c \in Callers |-> NoRet]
    /\ calls = [c \in Callers |-> 0]
    /\ pre = [c \in Callers |-> EmptyMap]
    /\ describeCalls = 0
    /\ stable = EmptyMap
    /\ populateErr = [c \in Callers |-> FALSE]

\* callers that may still issue a DescribeAvailabilityZones call
MayStillCall == {c \in Callers : pc[c] \in {"lock", "check"}}

\* ------------------------------------------------------------ actions
\* a goroutine calls getZoneDetailsByNames(names); lines 43-45: the empty
\* input returns at once
InvokeEmpty(c, names) ==
    /\ pc[c] = "idle"
    /\ IsEmptyInput(names)
    /\ pc' = [pc EXCEPT ![c] = "ret"]
    /\ zoneNames' = [zoneNames EXCEPT ![c] = names]
    /\ ret' = [ret EXCEPT ![c] = RetOk(EmptyMap)]
    /\ UNCHANGED <<zoneNameToDetails, mutex, zones, idx, calls, pre,
                   describeCalls, stable, populateErr>>

\* a goroutine calls getZoneDetailsByNames(names); line 43 false: it goes on
\* to z.mutex.Lock().  The argument is local to the goroutine and is first
\* read again at line 50, under the mutex, so it is recorded when Lock
\* returns: a caller at "lock" stands for a blocked call of any non-empty
\* argument.
Invoke(c, names) ==
    /\ pc[c] = "idle"
    /\ ~IsEmptyInput(names)
    /\ describeCalls + Cardinality(MayStillCall) < MaxCalls
    /\ pc' = [pc EXCEPT ![c] = "lock"]
    /\ UNCHANGED <<zoneNameToDetails, mutex, zoneNames, zones, idx, ret,
                   calls, pre, describeCalls, stable, populateErr>>

\* line 47: z.mutex.Lock() returns to a call whose argument is names
Lock(c, names) ==
    /\ pc[c] = "lock"
    /\ ~IsEmptyInput(names)
    /\ CanLock(c)
    /\ mutex' = c
    /\ pc' = [pc EXCEPT ![c] = "check"]
    /\ zoneNames' = [zoneNames EXCEPT ![c] = names]
    /\ pre' = [pre EXCEPT ![c] = zoneNameToDetails]
    /\ UNCHANGED <<zoneNameToDetails, zones, idx, ret, calls, describeCalls,
                   stable, populateErr>>

\* line 50 true, lines 92-93: populate issues DescribeAvailabilityZones
CheckPopulate(c) ==
    /\ pc[c] = "check"
    /\ shouldPopulateCache(zoneNameToDetails, zoneNames[c])
    /\ pc' = [pc EXCEPT ![c] = "describe"]
    /\ calls' = [calls EXCEPT ![c] = @ + 1]
    /\ describeCalls' = describeCalls + 1
    /\ UNCHANGED <<zoneNameToDetails, mutex, zoneNames, zones, idx, ret,
                   pre, stable,
                   populateErr>>

\* line 50 false: no populate
CheckHit(c) ==
    /\ pc[c] = "check"
    /\ ~shouldPopulateCache(zoneNameToDetails, zoneNames[c])
    /\ pc' = [pc EXCEPT ![c] = "read"]
    /\ UNCHANGED <<zoneNameToDetails, mutex, zoneNames, zones, idx, ret,
                   calls, pre, describeCalls, stable,
                   populateErr>>

\* variant that stores a record before it looks at the error
DescribeFailWrites(c) ==
    /\ pc[c] = "describe"
    /\ pc' = [pc EXCEPT ![c] = "ret"]
    /\ populateErr' = [populateErr EXCEPT ![c] = TRUE]
    /\ ret' = [ret EXCEPT ![c] = RetErr]
    /\ \E zone \in AvailabilityZones :
           zoneNameToDetails' = MapSet(zoneNameToDetails,
                                       StringValue(zone.ZoneName),
                                       zoneDetails(zone))
    /\ UNCHANGED <<mutex, zoneNames, zones, idx, calls, pre, describeCalls,
                   stable>>

\* variant that drops the error and serves what the cache holds
DescribeFailSwallowed(c) ==
    /\ pc[c] = "describe"
    /\ pc' = [pc EXCEPT ![c] = "read"]
    /\ populateErr' = [populateErr EXCEPT ![c] = TRUE]
    /\ UNCHANGED <<zoneNameToDetails, mutex, zoneNames, zones, idx, ret,
                   calls, pre, describeCalls, stable>>

\* lines 93-96, 53-55: the call fails, populate and the lookup return the error
DescribeFail(c) ==
    /\ pc[c] = "describe"
    /\ pc' = [pc EXCEPT ![c] = "ret"]
    /\ populateErr' = [populateErr EXCEPT ![c] = TRUE]
    /\ ret' = [ret EXCEPT ![c] = RetErr]
    /\ UNCHANGED <<zoneNameToDetails, mutex, zoneNames, zones, idx, calls,
                   pre, describeCalls, stable>>

\* variant that makes a fresh map on every populate, not only when it is unset
DescribeOkReplaces(c, listing) ==
    /\ pc[c] = "describe"
    /\ zones' = [zones EXCEPT ![c] = listing]
    /\ idx' = [idx EXCEPT ![c] = 0]
    /\ pc' = [pc EXCEPT ![c] = IF listing = << >> THEN "read" ELSE "write"]
    /\ zoneNameToDetails' = EmptyMap
    /\ stable' = IF listing = << >> THEN EmptyMap ELSE stable
    /\ UNCHANGED <<mutex, zoneNames, ret, calls, pre, describeCalls,
                   populateErr>>

\* lines 93, 98-101: the call answers with a listing; the map is made if unset
DescribeOk(c, listing) ==
    /\ pc[c] = "describe"
    /\ zones' = [zones EXCEPT ![c] = listing]
    /\ idx' = [idx EXCEPT ![c] = 0]
    /\ pc' = [pc EXCEPT ![c] = IF listing = << >> THEN "read" ELSE "write"]
    /\ UNCHANGED <<zoneNameToDetails, mutex, zoneNames, ret, calls, pre,
                   describeCalls, stable,
                   populateErr>>

\* lines 103-110: one iteration of the loop over zones
WriteZone(c) ==
    /\ pc[c] = "write"
    /\ LET zone == zones[c][idx[c] + 1]
           written == MapSet(zoneNameToDetails,
                             StringValue(zone.ZoneName), zoneDetails(zone))
           last == idx[c] + 1 = Len(zones[c])
       IN  /\ zoneNameToDetails' = written
           /\ idx' = [idx EXCEPT ![c] = @ + 1]
           /\ pc' = [pc EXCEPT ![c] = IF last THEN "read" ELSE "write"]
           /\ stable' = IF last THEN written ELSE stable
    /\ UNCHANGED <<mutex, zoneNames, zones, ret, calls, pre, describeCalls,
                   populateErr>>

\* variant that fails the lookup when a requested zone is unknown
ReadRequestedStrict(c) ==
    /\ pc[c] = "read"
    /\ ret' = [ret EXCEPT ![c] =
                 IF AnyMissing(zoneNameToDetails, zoneNames[c])
                 THEN RetErr
                 ELSE RetOk(requestedZoneDetails(zoneNameToDetails,
                                                 zoneNames[c]))]
    /\ pc' = [pc EXCEPT ![c] = "ret"]
    /\ UNCHANGED <<zoneNameToDetails, mutex, zoneNames, zones, idx, calls,
                   pre, describeCalls, stable, populateErr>>

\* variant that remembers an unknown zone in the cache, with empty details
RECURSIVE WithUnknown(_, _)
WithUnknown(m, names) ==
    IF names = << >> THEN m
    ELSE LET zone == Head(names)
         IN  IF zone \in DOMAIN m
             THEN WithUnknown(m, Tail(names))
             ELSE WithUnknown(MapSet(m, zone,
                                     [name |-> zone, id |-> "", zoneType |-> ""]),
                              Tail(names))

ReadRequestedCachesUnknown(c) ==
    /\ pc[c] = "read"
    /\ ret' = [ret EXCEPT ![c] =
                 RetOk(requestedZoneDetails(zoneNameToDetails, zoneNames[c]))]
    /\ zoneNameToDetails' = WithUnknown(zoneNameToDetails, zoneNames[c])
    /\ pc' = [pc EXCEPT ![c] = "ret"]
    /\ UNCHANGED <<mutex, zoneNames, zones, idx, calls, pre, describeCalls,
                   stable, populateErr>>

\* lines 58-67: build the requested map and return it
ReadRequested(c) ==
    /\ pc[c] = "read"
    /\ ret' = [ret EXCEPT ![c] =
                 RetOk(requestedZoneDetails(zoneNameToDetails, zoneNames[c]))]
    /\ pc' = [pc EXCEPT ![c] = "ret"]
    /\ UNCHANGED <<zoneNameToDetails, mutex, zoneNames, zones, idx, calls,
                   pre, describeCalls, stable,
                   populateErr>>

\* variant without defer: the error return of line 54 skips the Unlock
UnlockNotOnError(c) ==
    /\ pc[c] = "ret"
    /\ ~IsEmptyInput(zoneNames[c])
    /\ mutex' = IF ret[c].err THEN mutex ELSE 0
    /\ pc' = [pc EXCEPT ![c] = "idle"]
    /\ zoneNames' = [zoneNames EXCEPT ![c] = << >>]
    /\ ret' = [ret EXCEPT ![c] = NoRet]
    /\ pre' = [pre EXCEPT ![c] = EmptyMap]
    /\ zones' = [zones EXCEPT ![c] = << >>]
    /\ idx' = [idx EXCEPT ![c] = 0]
    /\ calls' = [calls EXCEPT ![c] = 0]
    /\ populateErr' = [populateErr EXCEPT ![c] = FALSE]
    /\ UNCHANGED <<zoneNameToDetails, describeCalls, stable>>

\* line 48: the deferred z.mutex.Unlock() runs and the call returns; the
\* return values and the call's locals leave with it
Unlock(c) ==
    /\ pc[c] = "ret"
    /\ ~IsEmptyInput(zoneNames[c])
    /\ mutex' = 0
    /\ pc' = [pc EXCEPT ![c] = "idle"]
    /\ zoneNames' = [zoneNames EXCEPT ![c] = << >>]
    /\ ret' = [ret EXCEPT ![c] = NoRet]
    /\ pre' = [pre EXCEPT ![c] = EmptyMap]
    /\ zones' = [zones EXCEPT ![c] = << >>]
    /\ idx' = [idx EXCEPT ![c] = 0]
    /\ calls' = [calls EXCEPT ![c] = 0]
    /\ populateErr' = [populateErr EXCEPT ![c] = FALSE]
    /\ UNCHANGED <<zoneNameToDetails, describeCalls, stable>>

\* line 44: the call with no names returns; no Unlock was deferred
ReturnEmpty(c) ==
    /\ pc[c] = "ret"
    /\ IsEmptyInput(zoneNames[c])
    /\ pc' = [pc EXCEPT ![c] = "idle"]
    /\ ret' = [ret EXCEPT ![c] = NoRet]
    /\ UNCHANGED <<zoneNameToDetails, mutex, zoneNames, zones, idx, calls,
                   pre, describeCalls, stable, populateErr>>

Next ==
    \E c \in Callers :
        \/ \E names \in ZoneNameArgs : InvokeEmpty(c, names)
        \/ \E names \in ZoneNameArgs : Invoke(c, names)
        \/ \E names \in ZoneNameArgs : Lock(c, names)
        \/ CheckPopulate(c)
        \/ CheckHit(c)
        \/ DescribeFail(c)
        \/ \E listing \in Listings : DescribeOk(c, listing)
        \/ WriteZone(c)
        \/ ReadRequested(c)
        \/ Unlock(c)
        \/ ReturnEmpty(c)

Spec == Init /\ [][Next]_vars

\* ------------------------------------------------------------ properties
Range(seq) == {seq[i] : i \in 1 .. Len(seq)}

Restrict(m, S) == [k \in DOMAIN m \cap S |-> m[k]]

\* the zone names a listing has a record for
ListedNames(listing) == {StringValue(zone.ZoneName) : zone \in Range(listing)}

\* the details of the last record of a listing that carries the name
LastListed(listing, name) ==
    LET at == {i \in 1 .. Len(listing) :
                  StringValue(listing[i].ZoneName) = name}
        last == CHOOSE i \in at : \A j \in at : j <= i
    IN  zoneDetails(listing[last])

\* callers between Lock and the deferred Unlock
InCall == {c \in Callers : pc[c] \in {"check", "describe", "write", "read", "ret"}}

\* callers of a lookup of some names whose return values are set, the mutex
\* still held
AtReturn == {c \in Callers : pc[c] = "ret" /\ zoneNames[c] # << >>}

\* callers with a DescribeAvailabilityZones call in flight
InFlight == {c \in Callers : pc[c] = "describe"}

\* C1: at most one DescribeAvailabilityZones call is in flight at any time,
\* and the caller it belongs to holds the mutex for as long as it is in flight.
C1_SingleFlight ==
    /\ Cardinality(InFlight) <= 1
    /\ \A c \in InFlight : mutex = c

\* a call is in flight while another caller of a cold cache waits in Lock
C1_Witness ==
    \E c, d \in Callers :
        /\ c # d
        /\ pc[c] = "describe"
        /\ pc[d] = "lock"
        /\ zoneNameToDetails = EmptyMap

\* C2: with populate writing one record per step, a lookup reads the map only
\* at a populate boundary: the map it is about to read, and the mapping it
\* returns, are those of the map as it stood when the last populate ended
\* (or before any populate), never of a map holding part of a listing.
C2_NoTornRead ==
    /\ \A c \in Callers : pc[c] = "read" => zoneNameToDetails = stable
    /\ \A c \in AtReturn :
          ~ret[c].err =>
              ret[c].details = Restrict(stable, Range(zoneNames[c]))

\* a populate has written one of its two records while another caller is
\* blocked in Lock
C2_Witness ==
    \E c, d \in Callers :
        /\ c # d
        /\ pc[c] = "write"
        /\ Len(zones[c]) = 2
        /\ idx[c] = 1
        /\ zoneNameToDetails # stable
        /\ pc[d] = "lock"

\* C3: a successful lookup of non-empty names returns exactly the requested
\* names that are keys of the map after any populate of the call, each with
\* the record the map holds for it.
C3_ResultIsRestriction ==
    \A c \in AtReturn :
        ~ret[c].err =>
            /\ ~ret[c].isNil
            /\ DOMAIN ret[c].details =
                   Range(zoneNames[c]) \cap DOMAIN zoneNameToDetails
            /\ \A k \in DOMAIN ret[c].details :
                   ret[c].details[k] = zoneNameToDetails[k]

\* two distinct names were asked for, the map holds both
C3_Witness ==
    \E c \in AtReturn :
        /\ ~ret[c].err
        /\ Cardinality(Range(zoneNames[c])) = 2
        /\ Cardinality(DOMAIN ret[c].details) = 2

\* C4: a lookup of non-empty names that finds the map empty issues exactly one
\* DescribeAvailabilityZones call, and when that call answers with a listing
\* it returns, for each requested name the listing has a record for, the
\* details of that record (the last one listed under the name) and nothing
\* else.
C4_ColdPopulateOnce ==
    \A c \in AtReturn :
        pre[c] = EmptyMap =>
            /\ calls[c] = 1
            /\ ~ret[c].err =>
                  /\ DOMAIN ret[c].details =
                         Range(zoneNames[c]) \cap ListedNames(zones[c])
                  /\ \A k \in DOMAIN ret[c].details :
                         ret[c].details[k] = LastListed(zones[c], k)

\* the listing has A and C, the cold lookup asked for one of them
C4_Witness ==
    \E c \in AtReturn :
        /\ pre[c] = EmptyMap
        /\ ~ret[c].err
        /\ ListedNames(zones[c]) = {"A", "C"}
        /\ zoneNames[c] = <<"A">>
        /\ DOMAIN ret[c].details = {"A"}

\* the map held every requested name when the caller took the mutex
CacheHit(c) ==
    /\ pre[c] # EmptyMap
    /\ Range(zoneNames[c]) \subseteq DOMAIN pre[c]

\* C5: a lookup that finds the map non-empty and holding every requested name
\* issues no DescribeAvailabilityZones call, leaves the map as it was and
\* succeeds with the cached records.
C5_CacheHit ==
    \A c \in InCall :
        CacheHit(c) =>
            /\ pc[c] \notin {"describe", "write"}
            /\ calls[c] = 0
            /\ zoneNameToDetails = pre[c]
            /\ pc[c] = "ret" =>
                  /\ ~ret[c].err
                  /\ ~ret[c].isNil
                  /\ ret[c].details = Restrict(pre[c], Range(zoneNames[c]))

\* a hit returns after the directory has been called once
C5_Witness ==
    \E c \in AtReturn :
        /\ CacheHit(c)
        /\ describeCalls = 1
        /\ DOMAIN ret[c].details # {}

\* the map was populated but lacked a requested name when the mutex was taken
CacheMiss(c) ==
    /\ pre[c] # EmptyMap
    /\ ~(Range(zoneNames[c]) \subseteq DOMAIN pre[c])

\* C6: a lookup that finds the map populated but lacking a requested name
\* issues exactly one DescribeAvailabilityZones call; when the call answers,
\* the result holds every requested name that was cached or is listed now,
\* the listed ones with the listed details, the others as cached.
C6_MissRefetches ==
    \A c \in AtReturn :
        CacheMiss(c) =>
            /\ calls[c] = 1
            /\ ~ret[c].err =>
                  \A k \in Range(zoneNames[c]) :
                      /\ k \in ListedNames(zones[c]) =>
                            /\ k \in DOMAIN ret[c].details
                            /\ ret[c].details[k] = LastListed(zones[c], k)
                      /\ (k \in DOMAIN pre[c] /\ k \notin ListedNames(zones[c])) =>
                            /\ k \in DOMAIN ret[c].details
                            /\ ret[c].details[k] = pre[c][k]

\* the map held only A, the listing has A and C, the lookup of A and C
\* returns both
C6_Witness ==
    \E c \in AtReturn :
        /\ DOMAIN pre[c] = {"A"}
        /\ zoneNames[c] = <<"A", "C">>
        /\ ListedNames(zones[c]) = {"A", "C"}
        /\ ~ret[c].err
        /\ DOMAIN ret[c].details = {"A", "C"}

\* C7: when the DescribeAvailabilityZones call of a lookup fails, the map is
\* as it was when the lookup took the mutex.
C7_FailureKeepsCache ==
    \A c \in AtReturn :
        populateErr[c] => zoneNameToDetails = pre[c]

\* a populated map survives a failed refetch
C7_Witness ==
    \E c \in AtReturn :
        /\ populateErr[c]
        /\ pre[c] # EmptyMap
        /\ zoneNameToDetails = pre[c]

\* C8: a lookup whose DescribeAvailabilityZones call fails returns an error
\* and a nil map after exactly one call, whatever the map holds; a lookup
\* returns an error in no other case.
C8_FailureAllOrNothing ==
    \A c \in AtReturn :
        /\ populateErr[c] =>
              /\ ret[c].err
              /\ ret[c].isNil
              /\ DOMAIN ret[c].details = {}
              /\ calls[c] = 1
        /\ ret[c].err => populateErr[c]

\* a lookup fails although the map holds one of the requested names
C8_Witness ==
    \E c \in AtReturn :
        /\ ret[c].err
        /\ Range(zoneNames[c]) \cap DOMAIN pre[c] # {}

\* the lookup's DescribeAvailabilityZones call answered with a listing
Refetched(c) == calls[c] = 1 /\ ~populateErr[c]

\* C9 as stated: when the call succeeds but its listing has no record for a
\* requested name, the lookup succeeds and the name is absent from the result.
C9_Original ==
    \A c \in AtReturn :
        Refetched(c) =>
            /\ ~ret[c].err
            /\ \A k \in Range(zoneNames[c]) :
                   k \notin ListedNames(zones[c]) =>
                       k \notin DOMAIN ret[c].details

\* C9: when the call succeeds but its listing has no record for a requested
\* name, the lookup succeeds, and the name is absent from the result unless
\* the map already held it before the call.
C9_UnknownOmitted ==
    \A c \in AtReturn :
        Refetched(c) =>
            /\ ~ret[c].err
            /\ ~ret[c].isNil
            /\ \A k \in Range(zoneNames[c]) :
                   (k \notin ListedNames(zones[c]) /\ k \notin DOMAIN pre[c]) =>
                       k \notin DOMAIN ret[c].details

\* a lookup of one name that the directory does not list returns an empty map
C9_Witness ==
    \E c \in AtReturn :
        /\ Refetched(c)
        /\ Len(zoneNames[c]) = 1
        /\ zoneNames[c][1] \notin ListedNames(zones[c])
        /\ zoneNames[c][1] \notin DOMAIN pre[c]
        /\ ~ret[c].err
        /\ ret[c].details = EmptyMap

\* C10: in every state a call with no names returns at once and never goes
\* on to Lock, also while another caller holds the mutex; the step that
\* returns it hands back an empty map and no error, issues no directory call
\* and leaves the mutex and the map untouched.
C10_EmptyShortCircuit ==
    /\ [](\A c \in Callers :
             pc[c] = "idle" =>
                 /\ ENABLED InvokeEmpty(c, << >>)
                 /\ ~ENABLED Invoke(c, << >>))
    /\ [][\A c \in Callers :
             (pc[c] = "idle" /\ pc'[c] = "ret") =>
                 /\ ret'[c] = RetOk(EmptyMap)
                 /\ calls'[c] = 0
                 /\ UNCHANGED <<zoneNameToDetails, mutex, describeCalls>>]_vars

\* the empty lookup has returned while a call of another caller is in flight
\* on a populated map
C10_Witness ==
    \E c, d \in Callers :
        /\ pc[c] = "ret"
        /\ zoneNames[c] = << >>
        /\ ret[c] = RetOk(EmptyMap)
        /\ pc[d] = "describe"
        /\ zoneNameToDetails # EmptyMap

\* callers whose populate has stored its whole listing
AfterPopulate ==
    {c \in Callers : pc[c] \in {"read", "ret"} /\ Refetched(c)}

\* C11: no step removes a key of the map: its key set only grows, so a name
\* stays in it when a later listing omits it, and a non-empty map never
\* becomes empty again.
C11_NeverDeletes ==
    [][DOMAIN zoneNameToDetails \subseteq DOMAIN zoneNameToDetails']_vars

\* the map still holds C after a populate whose listing names only A
C11_Witness ==
    \E c \in AfterPopulate :
        /\ "C" \in DOMAIN pre[c]
        /\ ListedNames(zones[c]) = {"A"}
        /\ "C" \in DOMAIN zoneNameToDetails

\* C12 as stated: the record stored under a name is the same in every later
\* state.
C12_Original ==
    [][\A k \in DOMAIN zoneNameToDetails :
          /\ k \in DOMAIN zoneNameToDetails'
          /\ zoneNameToDetails'[k] = zoneNameToDetails[k]]_vars

\* C12: a name stays in the map, and the record stored under it changes only
\* in a step of populate that stores a listed record of that very name, which
\* then is the record stored.
C12_StableUnlessRelisted ==
    [][\A k \in DOMAIN zoneNameToDetails :
          /\ k \in DOMAIN zoneNameToDetails'
          /\ zoneNameToDetails'[k] # zoneNameToDetails[k] =>
                \E c \in Callers :
                    /\ pc[c] = "write"
                    /\ idx'[c] = idx[c] + 1
                    /\ LET zone == zones[c][idx[c] + 1]
                       IN  /\ StringValue(zone.ZoneName) = k
                           /\ zoneNameToDetails'[k] =
                                  [name |-> k,
                                   id |-> StringValue(zone.ZoneId),
                                   zoneType |-> StringValue(zone.ZoneType)]]_vars

\* a populate has replaced the record of A by a different listed one while
\* the map kept the name
C12_Witness ==
    \E c \in AfterPopulate :
        /\ "A" \in DOMAIN pre[c]
        /\ "A" \in DOMAIN zoneNameToDetails
        /\ zoneNameToDetails["A"] # pre[c]["A"]

\* the map a listing describes: each listed name with its last record
ListingMap(listing) ==
    [k \in ListedNames(listing) |-> LastListed(listing, k)]

\* C13 as stated, read as: once a populate has stored its listing the map is
\* empty or is the map that listing describes.
C13_Original ==
    \A c \in AfterPopulate :
        \/ zoneNameToDetails = EmptyMap
        \/ zoneNameToDetails = ListingMap(zones[c])

\* C13: once a populate has stored its listing, the map holds every name of
\* that listing with the record listed last for it, next to the names it
\* held before; it is empty only if it was empty and the listing is empty.
C13_HoldsLatestListing ==
    \A c \in AfterPopulate :
        /\ DOMAIN zoneNameToDetails = DOMAIN pre[c] \cup ListedNames(zones[c])
        /\ \A k \in ListedNames(zones[c]) :
               zoneNameToDetails[k] = LastListed(zones[c], k)

\* the latest listing names A under a record other than the one cached, and
\* the map now holds the listed one
C13_Witness ==
    \E c \in AfterPopulate :
        /\ "A" \in DOMAIN pre[c]
        /\ "A" \in ListedNames(zones[c])
        /\ pre[c]["A"] # LastListed(zones[c], "A")
        /\ zoneNameToDetails["A"] = LastListed(zones[c], "A")

\* ------------------------------------------------------------ cold start
\* The scenario of N callers racing on a cold cache: every caller calls
\* getZoneDetailsByNames once, all with the same set of names, and the
\* directory answers with listings that name all of them.  A caller that has
\* returned stays at "done" with its argument and return values.

\* line 47, for an argument with the names the earlier callers asked for
LockSame(c, names) ==
    /\ Lock(c, names)
    /\ \A d \in Callers \ {c} :
           zoneNames[d] # << >> => Range(zoneNames[d]) = Range(names)

\* line 93 answers with a listing that names every requested zone
DescribeOkListed(c, listing) ==
    /\ DescribeOk(c, listing)
    /\ Range(zoneNames[c]) \subseteq ListedNames(listing)

\* line 48: the deferred z.mutex.Unlock() runs and the call returns
UnlockKeep(c) ==
    /\ pc[c] = "ret"
    /\ mutex' = 0
    /\ pc' = [pc EXCEPT ![c] = "done"]
    /\ UNCHANGED <<zoneNameToDetails, zoneNames, zones, idx, ret, calls, pre,
                   describeCalls, stable, populateErr>>

NextColdStart ==
    \E c \in Callers :
        \/ \E names \in ZoneNameArgs : Invoke(c, names)
        \/ \E names \in ZoneNameArgs : LockSame(c, names)
        \/ CheckPopulate(c)
        \/ CheckHit(c)
        \/ \E listing \in Listings : DescribeOkListed(c, listing)
        \/ WriteZone(c)
        \/ ReadRequested(c)
        \/ UnlockKeep(c)

SpecColdStart == Init /\ [][NextColdStart]_vars

\* C14: when all callers look up the same non-empty set of names on a cold
\* cache and the directory lists every requested name, the directory is
\* called at most once while calls are under way and exactly once by the
\* time any of them has returned, and all callers that have returned got the
\* same map and no error.
C14_ColdStartSingleFlight ==
    /\ describeCalls <= 1
    /\ \A c \in Callers :
           pc[c] = "done" =>
               /\ describeCalls = 1
               /\ ~ret[c].err
               /\ ~ret[c].isNil
               /\ DOMAIN ret[c].details = Range(zoneNames[c])
               /\ \A d \in Callers :
                      pc[d] = "done" => ret[d].details = ret[c].details

\* all callers have returned, from arguments that are not all the same
\* sequence
C14_Witness ==
    /\ \A c \in Callers : pc[c] = "done"
    /\ \E c, d \in Callers : zoneNames[c] # zoneNames[d]
    /\ describeCalls = 1

\* C15: once the first successful populate on an empty map has stored its
\* listing, the map is no longer taken for one that was never populated:
\* the len test of shouldPopulateCache (line 72) is false, and a lookup of
\* names that were all listed needs no populate.
C15_FirstPopulateLeavesEmpty ==
    \A c \in AfterPopulate :
        pre[c] = EmptyMap =>
            /\ Cardinality(DOMAIN zoneNameToDetails) # 0
            /\ \A names \in ZoneNameArgs :
                   (names # << >> /\ Range(names) \subseteq ListedNames(zones[c]))
                       => ~shouldPopulateCache(zoneNameToDetails, names)

\* ------------------------------------------------------------ fairness
\* Who holds the mutex and whether a call returns do not depend on how many
\* names are asked for or how many zones are listed, so under fairness every
\* call asks for one name and the directory lists at most one zone.

\* line 47, for an argument of one name
LockOne(c, names) == Lock(c, names) /\ Len(names) = 1

\* line 93 answers with a listing of at most one zone
DescribeOkShort(c, listing) == DescribeOk(c, listing) /\ Len(listing) <= 1

\* the steps of a call that do not wait for anyone else: a goroutine inside
\* getZoneDetailsByNames keeps running, and the directory call returns
CallerStep(c) ==
    \/ CheckPopulate(c)
    \/ CheckHit(c)
    \/ DescribeFail(c)
    \/ \E listing \in Listings : DescribeOkShort(c, listing)
    \/ WriteZone(c)
    \/ ReadRequested(c)
    \/ Unlock(c)
    \/ ReturnEmpty(c)

NextFair ==
    \E c \in Callers :
        \/ \E names \in ZoneNameArgs : InvokeEmpty(c, names)
        \/ \E names \in ZoneNameArgs : Invoke(c, names)
        \/ \E names \in ZoneNameArgs : LockOne(c, names)
        \/ CallerStep(c)

\* a goroutine inside the call keeps running, and a caller blocked in Lock
\* gets the mutex if it is free again and again
SpecFair ==
    /\ Init
    /\ [][NextFair]_vars
    /\ \A c \in Callers :
           /\ WF_vars(CallerStep(c))
           /\ SF_vars(\E names \in ZoneNameArgs : LockOne(c, names))

\* C16: the mutex is held only by a caller inside the call, every return of
\* a caller that took it, failed or not, leaves it free, and with directory
\* calls that return and fair lock acquisition every call that was made
\* returns.
C16_LockReleased ==
    /\ [](mutex # 0 => mutex \in InCall)
    /\ [][\A c \in Callers :
             (pc[c] = "ret" /\ zoneNames[c] # << >> /\ pc'[c] = "idle")
                 => mutex' = 0]_vars
    /\ \A c \in Callers : (pc[c] # "idle") ~> (pc[c] = "idle")

\* a caller waits in Lock while the holder of the mutex is returning an error
C16_Witness ==
    \E c, d \in Callers :
        /\ pc[c] = "ret"
        /\ ret[c].err
        /\ mutex = c
        /\ pc[d] = "lock"

\* C17: under the mutex, for non-empty names, shouldPopulateCache sends the
\* call into populate exactly when the map is empty or lacks a requested
\* name, and otherwise straight on to the read; the decision itself leaves
\* the map as it is.
C17_ShouldPopulate ==
    [][\A c \in Callers :
          (pc[c] = "check" /\ pc'[c] # "check") =>
              /\ pc'[c] \in {"describe", "read"}
              /\ pc'[c] = "describe" <=>
                     \/ DOMAIN zoneNameToDetails = {}
                     \/ \E k \in Range(zoneNames[c]) :
                            k \notin DOMAIN zoneNameToDetails
              /\ zoneNameToDetails' = zoneNameToDetails]_vars

\* a populated map holds the first requested name but not the second, and
\* the call has gone into populate
C17_Witness ==
    \E c \in Callers :
        /\ pc[c] = "describe"
        /\ Len(zoneNames[c]) = 2
        /\ zoneNames[c][1] \in DOMAIN zoneNameToDetails
        /\ zoneNames[c][2] \notin DOMAIN zoneNameToDetails

\* the name, id and type of the last record a listing has for a name
ListedRecord(listing, k) ==
    LET at == {i \in 1 .. Len(listing) :
                  StringValue(listing[i].ZoneName) = k}
        zone == listing[CHOOSE i \in at : \A j \in at : j <= i]
    IN  [name |-> k,
         id |-> StringValue(zone.ZoneId),
         zoneType |-> StringValue(zone.ZoneType)]

\* C18: after a successful populate the map is the map from before with
\* every listed name set to its listed record (name, id and type), all other
\* names keeping their record; and in every state each key of the map
\* carries a record of that name.
C18_PopulateOverrides ==
    /\ \A k \in DOMAIN zoneNameToDetails : zoneNameToDetails[k].name = k
    /\ \A c \in AfterPopulate :
           zoneNameToDetails =
               [k \in DOMAIN pre[c] \cup ListedNames(zones[c]) |->
                    IF k \in ListedNames(zones[c])
                    THEN ListedRecord(zones[c], k)
                    ELSE pre[c][k]]

\* a populate has put a record with an id and a type under C and has kept
\* the record of A, which its listing does not name
C18_Witness ==
    \E c \in AfterPopulate :
        /\ DOMAIN pre[c] = {"A"}
        /\ ListedNames(zones[c]) = {"C"}
        /\ zoneNameToDetails["C"].id # zoneNameToDetails["C"].zoneType
        /\ zoneNameToDetails["A"] = pre[c]["A"]

\* C19: a lookup that asks for a name the map does not hold issues one
\* directory call, and when the listing does not name it either the name
\* is not put into the map, so that any later lookup asking for it calls the
\* directory again.
C19_NoNegativeCaching ==
    \A c \in AtReturn :
        /\ (\E k \in Range(zoneNames[c]) : k \notin DOMAIN pre[c])
               => calls[c] = 1
        /\ Refetched(c) =>
               \A k \in Range(zoneNames[c]) :
                   (k \notin ListedNames(zones[c]) /\ k \notin DOMAIN pre[c]) =>
                       /\ k \notin DOMAIN zoneNameToDetails
                       /\ \A names \in ZoneNameArgs :
                              k \in Range(names) =>
                                  shouldPopulateCache(zoneNameToDetails, names)

\* the second directory call of the run was made for C, which is still
\* unknown, while another name is cached
C19_Witness ==
    \E c \in AtReturn :
        /\ Refetched(c)
        /\ describeCalls = 2
        /\ zoneNames[c] = <<"C">>
        /\ pre[c] # EmptyMap
        /\ "C" \notin DOMAIN zoneNameToDetails

\* C20: storing a listing a second time changes nothing, and what a lookup
\* decides and returns is the same for every argument with the same set of
\* names: the same populate decision on the map it found, the same result
\* from the map it left.
C20_IdempotentAndSetBased ==
    /\ \A c \in AfterPopulate :
           /\ zoneNameToDetails = populateLoop(pre[c], zones[c])
           /\ populateLoop(zoneNameToDetails, zones[c]) = zoneNameToDetails
    /\ \A c \in AtReturn :
           \A names \in ZoneNameArgs :
               Range(names) = Range(zoneNames[c]) =>
                   /\ shouldPopulateCache(pre[c], names) = (calls[c] = 1)
                   /\ ~ret[c].err =>
                          requestedZoneDetails(zoneNameToDetails, names)
                              = ret[c].details

\* a lookup that named two zones has stored a listing of two records and
\* returns both zones
C20_Witness ==
    \E c \in AtReturn :
        /\ Refetched(c)
        /\ Len(zones[c]) = 2
        /\ Cardinality(Range(zoneNames[c])) = 2
        /\ Cardinality(DOMAIN ret[c].details) = 2

====
